---- MODULE Spec2Model ----
(***************************************************************************)
(* kredit-plus: the credit-limit ledger and the contract issuance engine.  *)
(*                                                                         *)
(* The MySQL database is the variable db (tables credit_limits,            *)
(* transactions, transaction_details).  Request handlers run concurrently  *)
(* as the processes Procs; every step of a handler that reads or writes    *)
(* the database is one action, so that the handlers interleave exactly at  *)
(* their database accesses.  A gorm transaction takes the row lock of a    *)
(* credit limit in one action (SELECT ... FOR UPDATE) and runs its body    *)
(* and commits or rolls back in the next.                                  *)
(*                                                                         *)
(* Money is counted in hundredths, the precision of the DECIMAL(15,2)      *)
(* columns.                                                                *)
(***************************************************************************)
EXTENDS Integers, Sequences, FiniteSets, TLC

\* ---------------------------------------------------------------- bounds
\* concurrent request handlers
NProcs == 2
\* events of one behaviour: service calls started and infrastructure
\* failures injected
MaxEvents == 2

Procs == 1..NProcs

\* the primary keys of credit limit rows: every call inserts at most one
AllocIds == 1..MaxEvents

\* ------------------------------------------------------ collaborator data
\* customers table: id -> is_active ("c3" is a customer that does not exist)
CustomerTable == [c \in {"c1", "c2"} |-> [isActive |-> c = "c1"]]

\* assets table: id -> price ("a3" is an asset that does not exist)
AssetTable ==
    [a \in {"a1", "a2", "a4"} |->
       IF a = "a1" THEN 9000000 ELSE IF a = "a2" THEN 500000 ELSE 1001]

\* ------------------------------------------------------------ the inputs
ValidTenors == {1, 2, 3, 6}

BaseIssue ==
    [customer |-> "c1", asset |-> "a1", tenor |-> 1, adminFee |-> 500000,
     rate |-> 2, contract |-> "K1"]

\* requests that pass validation
ValidIssueInputs ==
    { [customer |-> "c1", asset |-> pr[1], tenor |-> 1, adminFee |-> pr[2],
       rate |-> pr[3], contract |-> k] :
        pr \in {<<"a1", 500000, 2>>, <<"a2", 0, 0>>}, k \in {"K1", "K2"} }
    \cup { [customer |-> "c1", asset |-> "a4", tenor |-> 2, adminFee |-> 0,
            rate |-> 1, contract |-> "K1"] }

\* requests that pass validation and name an inactive customer, a customer
\* that does not exist, an asset that does not exist
RejectedIssueInputs ==
    { [BaseIssue EXCEPT !.customer = "c2"], [BaseIssue EXCEPT !.customer = "c3"],
      [BaseIssue EXCEPT !.asset = "a3"] }

\* requests that fail validation, one field each
InvalidIssueInputs ==
    { [BaseIssue EXCEPT !.tenor = 4], [BaseIssue EXCEPT !.adminFee = -1],
      [BaseIssue EXCEPT !.rate = 101], [BaseIssue EXCEPT !.contract = ""] }

IssueInputs == ValidIssueInputs \cup RejectedIssueInputs \cup InvalidIssueInputs

LimitInputs ==
    { [customer |-> "c1", tenor |-> 1, limit |-> 10000000],
      [customer |-> "c1", tenor |-> 2, limit |-> 10000000],
      [customer |-> "c1", tenor |-> 4, limit |-> 10000000],
      [customer |-> "c1", tenor |-> 1, limit |-> 0] }

AmountInputs == {0, 500000, 9680000, -9680000}

\* ------------------------------------------------------------- the state
VARIABLES
    db,       \* the database: [credit_limits, transactions, transaction_details]
    lock,     \* lock[p]: id of the credit limit row p's transaction holds, or 0
    issued,   \* ids of the credit limit rows ever inserted (uuid.New never repeats)
    pc,       \* pc[p]: where handler p is
    op,       \* op[p]: the service call p runs
    req,      \* req[p]: its arguments
    loc,      \* loc[p]: its local variables
    result,   \* result[p]: the error it returns, "ok", or "" while running
    hist,     \* hist[p]: what the call of p has committed so far (history)
    calls,    \* service calls started
    faults,   \* infrastructure failures injected
    now,      \* the UTC date time.Now() gives
    snap,     \* a contract snapshot handed to the schedule generator
    gen,      \* the schedules the generator has returned for snap, in order
    fan       \* the goroutines and channels of the fan-out of one issue call

vars == <<db, lock, issued, pc, op, req, loc, result, hist, calls, faults,
          now, snap, gen, fan>>

\* ------------------------------------------------------------------ dates
\* a date is [y, m, d]
NoDate == [y |-> 0, m |-> 0, d |-> 0]

IsLeap(y) == (y % 4 = 0 /\ y % 100 # 0) \/ y % 400 = 0

DaysIn(y, m) ==
    IF m = 2 THEN (IF IsLeap(y) THEN 29 ELSE 28)
    ELSE IF m \in {4, 6, 9, 11} THEN 30 ELSE 31

\* time.Date: a month past December runs into the next year, a day past the
\* end of the month runs into the next month
NormalizeDate(y, m, d) ==
    LET y1 == IF m > 12 THEN y + 1 ELSE y
        m1 == IF m > 12 THEN m - 12 ELSE m
    IN  IF d <= DaysIn(y1, m1) THEN [y |-> y1, m |-> m1, d |-> d]
        ELSE IF m1 = 12 THEN [y |-> y1 + 1, m |-> 1, d |-> d - DaysIn(y1, m1)]
        ELSE [y |-> y1, m |-> m1 + 1, d |-> d - DaysIn(y1, m1)]

\* t.AddDate(0, 1, 0)
AddMonth(t) == NormalizeDate(t.y, t.m + 1, t.d)

RECURSIVE DueDate(_, _)
\* dueDate after i rounds of dueDate = dueDate.AddDate(0, 1, 0) from t
DueDate(t, i) == IF i = 0 THEN t ELSE AddMonth(DueDate(t, i - 1))

\* ------------------------------------------------------- pure functions
\* a / b rounded half up to a whole hundredth: a float64 quotient stored in
\* a DECIMAL(15,2) column
RoundDiv(a, b) == (2 * a + b) \div (2 * b)

\* a validation that accepts every request
ValidateNothing(r) == {}

\* CreateTransactionRequest.Validate: the set of validation errors
ValidateTransaction(r) ==
    (IF r.customer = "" THEN {"customer_id is required"} ELSE {})
    \cup (IF r.asset = "" THEN {"asset_id is required"} ELSE {})
    \cup (IF r.tenor \notin ValidTenors
          THEN {"tenor_month must be 1, 2, 3, or 6"} ELSE {})
    \cup (IF r.adminFee < 0 THEN {"admin_fee must not be negative"} ELSE {})
    \cup (IF r.rate < 0 \/ r.rate > 100
          THEN {"interest_rate must be between 0 and 100"} ELSE {})
    \cup (IF r.contract = "" THEN {"contract_number is required"} ELSE {})

\* CreateCreditLimitRequest.Validate: the set of validation errors
ValidateCreditLimit(r) ==
    (IF r.customer = "" THEN {"customer_id is required"} ELSE {})
    \cup (IF r.tenor \notin ValidTenors
          THEN {"tenor_month must be 1, 2, 3, or 6"} ELSE {})
    \cup (IF r.limit <= 0 THEN {"limit_amount must be greater than 0"} ELSE {})

\* an interest that leaves out the tenor
InterestAmountOnePeriod(price, r) == RoundDiv(price * r.rate, 100)

\* interestAmount := (price * rate * tenor) / 100
InterestAmount(price, r) == RoundDiv(price * r.rate * r.tenor, 100)

\* totalAmount := price + adminFee + interestAmount
TotalAmount(price, r) == price + r.adminFee + InterestAmount(price, r)

\* an installment that splits the price alone
InstallmentAmountOfPrice(price, r) == RoundDiv(price, r.tenor)

\* installmentAmount := totalAmount / tenor, the float64 quotient of the
\* float64 total, rounded once when it is stored
InstallmentAmount(price, r) ==
    RoundDiv(100 * (price + r.adminFee) + price * r.rate * r.tenor,
             100 * r.tenor)

\* the entity.Transaction the service builds from the request and the asset
NewTransaction(price, r) ==
    [customer |-> r.customer, asset |-> r.asset, contract |-> r.contract,
     otr |-> price, adminFee |-> r.adminFee,
     interest |-> InterestAmount(price, r), tenor |-> r.tenor,
     installment |-> InstallmentAmount(price, r), status |-> "pending",
     createdAt |-> now]

\* principal + fee + interest of a transaction
TxTotal(t) == t.otr + t.adminFee + t.interest

\* a pre-check that forgets the committed amount
PreCheckIgnoresUsed(total, cl) == total > cl.limit

\* the optimistic pre-check of the service on the fetched credit limit
PreCheckFails(total, cl) == total > cl.limit - cl.used

\* a generator that leaves out the last installment
generateAllButLast(id, t) ==
    { [tx |-> id, number |-> i, amount |-> t.installment,
       due |-> DueDate(now, i), status |-> "pending"] :
        i \in 1..(t.tenor - 1) }

\* a generator whose installments start as paid
generatePaid(id, t) ==
    { [tx |-> id, number |-> i, amount |-> t.installment,
       due |-> DueDate(now, i), status |-> "paid"] :
        i \in 1..t.tenor }

\* a generator that charges the whole total in every installment
generateTotals(id, t) ==
    { [tx |-> id, number |-> i, amount |-> t.otr + t.adminFee + t.interest,
       due |-> DueDate(now, i), status |-> "pending"] :
        i \in 1..t.tenor }

\* generateInstallments: one transaction_details row per month of the tenor
generateInstallments(id, t) ==
    { [tx |-> id, number |-> i, amount |-> t.installment,
       due |-> DueDate(now, i), status |-> "pending"] :
        i \in 1..t.tenor }

\* -------------------------------------------------------------- queries
NoRow == [id |-> 0, customer |-> "", tenor |-> 0, limit |-> 0, used |-> 0]

\* the credit_limits row with primary key id, as a struct
LimitRow(d, id) ==
    [id |-> id, customer |-> d.credit_limits[id].customer,
     tenor |-> d.credit_limits[id].tenor, limit |-> d.credit_limits[id].limit,
     used |-> d.credit_limits[id].used]

\* First(&limit, "id = ?"): the row, or NoRow for gorm.ErrRecordNotFound
GetByID(d, id) ==
    IF id \in DOMAIN d.credit_limits THEN LimitRow(d, id) ELSE NoRow

\* a lookup by (customer, tenor) that never finds a row
NoExistingLimit(d, c, t) == NoRow

\* Where("customer_id = ? AND tenor_month = ?").First: First orders by the
\* primary key, so of several matching rows the one with the least id
GetByCustomerIDAndTenor(d, c, t) ==
    LET ids == { i \in DOMAIN d.credit_limits :
                   d.credit_limits[i].customer = c /\ d.credit_limits[i].tenor = t }
    IN  IF ids = {} THEN NoRow
        ELSE LimitRow(d, CHOOSE i \in ids : \A j \in ids : i <= j)

\* a transactions table without the unique index on contract_number, read
\* by a lookup that never finds a row
ContractNeverExists(d, k) == FALSE

\* First(&transaction, "contract_number = ?") finds a row
ContractExists(d, k) ==
    \E i \in DOMAIN d.transactions : d.transactions[i].contract = k

\* ------------------------------------------------ database transactions
\* the statements of a transaction at which an infrastructure failure is injected
CreateFaults == {"insertTransaction", "insertDetails", "save"}

\* the primary key uuid.New gives the next transactions row
NewTxId(d) == Cardinality(DOMAIN d.transactions) + 1

\* The body of transactionRepository.Create after the locked read of row:
\* [err, db], db being the transaction's view after the statements it ran.
\* The field alloc of a transactions row is history: the credit limit row
\* that was locked when the contract was inserted.
CreateBody(d, row, t, fault) ==
    LET id == NewTxId(d)
        d1 == [d EXCEPT !.transactions =
                 [i \in DOMAIN d.transactions \cup {id} |->
                    IF i = id THEN t @@ [alloc |-> row.id]
                    ELSE d.transactions[i]]]
        d2 == [d1 EXCEPT !.transaction_details = @ \cup generateInstallments(id, t)]
        d3 == [d2 EXCEPT !.credit_limits[row.id].used = row.used + t.otr]
    IN  IF row.used + t.otr > row.limit
        THEN [err |-> "insufficient credit limit", db |-> d]
        ELSE IF fault = "insertTransaction" \/ ContractExists(d, t.contract)
        THEN [err |-> "failed to create transaction", db |-> d]
        ELSE IF fault = "insertDetails"
        THEN [err |-> "failed to create transaction details", db |-> d1]
        ELSE IF fault = "save"
        THEN [err |-> "failed to update credit limit", db |-> d2]
        ELSE [err |-> "", db |-> d3]

\* an UpdateUsedAmount without the capacity check under the lock
UpdateBodyUnchecked(d, row, amount, fault) ==
    IF fault = "save"
    THEN [err |-> "failed to update credit limit used amount", db |-> d]
    ELSE [err |-> "",
          db |-> [d EXCEPT !.credit_limits[row.id].used = row.used + amount]]

\* an UpdateUsedAmount whose save writes nothing
UpdateBodyNoSave(d, row, amount, fault) ==
    IF row.used + amount > row.limit
    THEN [err |-> "insufficient credit limit", db |-> d]
    ELSE IF fault = "save"
    THEN [err |-> "failed to update credit limit used amount", db |-> d]
    ELSE [err |-> "", db |-> d]

\* an UpdateUsedAmount whose save writes every credit limit of the customer
UpdateBodyAllRows(d, row, amount, fault) ==
    IF row.used + amount > row.limit
    THEN [err |-> "insufficient credit limit", db |-> d]
    ELSE IF fault = "save"
    THEN [err |-> "failed to update credit limit used amount", db |-> d]
    ELSE [err |-> "",
          db |-> [d EXCEPT !.credit_limits =
                    [i \in DOMAIN d.credit_limits |->
                       IF d.credit_limits[i].customer = row.customer
                       THEN [d.credit_limits[i] EXCEPT !.used = @ + amount]
                       ELSE d.credit_limits[i]]]]

\* The body of creditLimitRepository.UpdateUsedAmount after the locked read.
UpdateBody(d, row, amount, fault) ==
    IF row.used + amount > row.limit
    THEN [err |-> "insufficient credit limit", db |-> d]
    ELSE IF fault = "save"
    THEN [err |-> "failed to update credit limit used amount", db |-> d]
    ELSE [err |-> "",
          db |-> [d EXCEPT !.credit_limits[row.id].used = row.used + amount]]

\* statements run outside a transaction: what ran stays, error or not
TransactionNoRollback(pre, out) == out.db

\* Client.Transaction (gorm's Transaction): the database after the body
\* returned out, committed when it returned no error and rolled back otherwise
Transaction(pre, out) == IF out.err = "" THEN out.db ELSE pre

\* ------------------------------------------------------ handler locals
NoTxn ==
    [customer |-> "", asset |-> "", contract |-> "", otr |-> 0, adminFee |-> 0,
     interest |-> 0, tenor |-> 0, installment |-> 0, status |-> "",
     createdAt |-> NoDate]

NoLoc ==
    [fExisting |-> "pending", fCustomer |-> "pending",
     fAsset |-> [st |-> "pending", price |-> 0],
     fLimit |-> [st |-> "pending", row |-> NoRow],
     txn |-> NoTxn, txId |-> 0, row |-> NoRow, updId |-> 0, updAmount |-> 0,
     resp |-> NoTxn, respInst |-> {}]

NoReq == [customer |-> "", tenor |-> 0]

NoHist == [tx |-> 0, details |-> 0, delta |-> 0, solo |-> FALSE, fault |-> FALSE]

Running(q) == pc[q] \notin {"idle", "done"}

\* the fan-out before the service has started it
NoFan ==
    [g |-> [i \in 1..4 |-> [pc |-> "", val |-> ""]], closed |-> 0, k |-> 0,
     got |-> [i \in 1..4 |-> ""], first |-> 0]

\* whether an infrastructure failure may still be injected
FaultChoices == IF calls + faults < MaxEvents THEN {FALSE, TRUE} ELSE {FALSE}

\* history: what the transaction of p that took the database from pre to post
\* committed, id being the credit limit row it locked
Committed(h, pre, post, id) ==
    [h EXCEPT
       !.tx = IF DOMAIN post.transactions # DOMAIN pre.transactions
              THEN CHOOSE i \in DOMAIN post.transactions :
                       i \notin DOMAIN pre.transactions
              ELSE @,
       !.details = @ + Cardinality(post.transaction_details
                                     \ pre.transaction_details),
       !.delta = @ + post.credit_limits[id].used - pre.credit_limits[id].used]

\* the database after the migrations
EmptyDB ==
    [credit_limits |-> <<>>, transactions |-> <<>>, transaction_details |-> {}]

\* the database after one creditLimitService.Create has completed on it
SeededDB ==
    [EmptyDB EXCEPT !.credit_limits =
       [i \in {1} |-> [customer |-> "c1", tenor |-> 1, limit |-> 10000000,
                       used |-> 0]]]

\* the database after a reservation of 96800.00 on that credit limit
ReservedDB == [SeededDB EXCEPT !.credit_limits[1].used = 9680000]

\* The service starts on a database that is empty, or holds one credit limit,
\* or holds that credit limit with a reservation on it.
Init ==
    /\ db \in {EmptyDB, SeededDB, ReservedDB}
    /\ lock = [p \in Procs |-> 0]
    /\ issued = DOMAIN db.credit_limits
    /\ pc = [p \in Procs |-> "idle"]
    /\ op = [p \in Procs |-> ""]
    /\ req = [p \in Procs |-> NoReq]
    /\ loc = [p \in Procs |-> NoLoc]
    /\ result = [p \in Procs |-> ""]
    /\ hist = [p \in Procs |-> NoHist]
    /\ calls = 0
    /\ faults = 0
    /\ now = [y |-> 2025, m |-> 1, d |-> 31]
    /\ snap = NoTxn
    /\ gen = <<>>
    /\ fan = NoFan

\* A handler starts the service call o with arguments r.  Handlers are
\* interchangeable, so a new request goes to the free handler of least number.
Begin(p, o, r) ==
    /\ ~Running(p)
    /\ \A q \in Procs : q < p => Running(q)
    /\ calls + faults < MaxEvents
    /\ calls' = calls + 1
    /\ op' = [op EXCEPT ![p] = o]
    /\ req' = [req EXCEPT ![p] = r]
    /\ hist' = [q \in Procs |->
                  IF q = p
                  THEN [NoHist EXCEPT !.solo = \A x \in Procs \ {p} : ~Running(x)]
                  ELSE IF Running(q) THEN [hist[q] EXCEPT !.solo = FALSE]
                  ELSE hist[q]]

\* the handler of p returns r
Finish(p, r) ==
    /\ pc' = [pc EXCEPT ![p] = "done"]
    /\ result' = [result EXCEPT ![p] = r]

Goto(p, l) ==
    /\ pc' = [pc EXCEPT ![p] = l]
    /\ UNCHANGED result

Inject(p, f) ==
    /\ faults' = IF f THEN faults + 1 ELSE faults
    /\ hist' = [hist EXCEPT ![p].fault = @ \/ f]

\* ------------------------------------------- transactionService.Create
\* validation, then the four fetch goroutines are started
IssueStart(p, r) ==
    /\ Begin(p, "issue", r)
    /\ loc' = [loc EXCEPT ![p] = NoLoc]
    /\ IF ValidateTransaction(r) # {}
       THEN Finish(p, "validation failed")
       ELSE /\ pc' = [pc EXCEPT ![p] = "fetch"]
            /\ result' = [result EXCEPT ![p] = ""]
    /\ UNCHANGED <<db, lock, issued, faults, now, snap, gen, fan>>

Fetching(p) == pc[p] = "fetch" /\ op[p] = "issue"

\* transactionRepo.GetByContractNumber
FetchExisting(p) ==
    /\ Fetching(p) /\ loc[p].fExisting = "pending"
    /\ \E f \in FaultChoices :
         /\ loc' = [loc EXCEPT ![p].fExisting =
                      IF f THEN "err"
                      ELSE IF ContractExists(db, req[p].contract) THEN "found"
                      ELSE "nil"]
         /\ Inject(p, f)
    /\ UNCHANGED <<db, lock, issued, pc, op, req, result, calls, now, snap, gen, fan>>

\* customerRepo.GetByID
FetchCustomer(p) ==
    /\ Fetching(p) /\ loc[p].fCustomer = "pending"
    /\ \E f \in FaultChoices :
         /\ loc' = [loc EXCEPT ![p].fCustomer =
                      IF f THEN "err"
                      ELSE IF req[p].customer \notin DOMAIN CustomerTable THEN "nil"
                      ELSE IF CustomerTable[req[p].customer].isActive THEN "active"
                      ELSE "inactive"]
         /\ Inject(p, f)
    /\ UNCHANGED <<db, lock, issued, pc, op, req, result, calls, now, snap, gen, fan>>

\* assetRepo.GetByID
FetchAsset(p) ==
    /\ Fetching(p) /\ loc[p].fAsset.st = "pending"
    /\ \E f \in FaultChoices :
         /\ loc' = [loc EXCEPT ![p].fAsset =
                      IF f THEN [st |-> "err", price |-> 0]
                      ELSE IF req[p].asset \notin DOMAIN AssetTable
                      THEN [st |-> "nil", price |-> 0]
                      ELSE [st |-> "ok", price |-> AssetTable[req[p].asset]]]
         /\ Inject(p, f)
    /\ UNCHANGED <<db, lock, issued, pc, op, req, result, calls, now, snap, gen, fan>>

\* creditLimitRepo.GetByCustomerIDAndTenor
FetchCreditLimit(p) ==
    /\ Fetching(p) /\ loc[p].fLimit.st = "pending"
    /\ \E f \in FaultChoices :
         LET row == GetByCustomerIDAndTenor(db, req[p].customer, req[p].tenor)
         IN  /\ loc' = [loc EXCEPT ![p].fLimit =
                          IF f THEN [st |-> "err", row |-> NoRow]
                          ELSE IF row.id = 0 THEN [st |-> "nil", row |-> NoRow]
                          ELSE [st |-> "ok", row |-> row]]
             /\ Inject(p, f)
    /\ UNCHANGED <<db, lock, issued, pc, op, req, result, calls, now, snap, gen, fan>>

\* checks that pass a found contract number, a missing or inactive customer,
\* a missing asset
JoinErrorNoPartyChecks(l, r) ==
    IF l.fExisting = "err" THEN "failed to check existing contract"
    ELSE IF l.fCustomer = "err" THEN "failed to get customer"
    ELSE IF l.fAsset.st = "err" THEN "failed to get asset"
    ELSE IF l.fLimit.st = "err" THEN "failed to get credit limit"
    ELSE IF l.fLimit.st = "nil" THEN "no credit limit found for tenor"
    ELSE IF PreCheckFails(TotalAmount(l.fAsset.price, r), l.fLimit.row)
    THEN "ErrInsufficientCreditLimit"
    ELSE ""

\* checks that take a failed fetch for a result
JoinErrorIgnoresFetchErrors(l, r) ==
    IF l.fExisting = "found" THEN "ErrDuplicateContract"
    ELSE IF l.fCustomer = "nil" THEN "customer not found"
    ELSE IF l.fCustomer = "inactive" THEN "customer is not active"
    ELSE IF l.fAsset.st = "nil" THEN "asset not found"
    ELSE IF l.fLimit.st \in {"nil", "err"} THEN "no credit limit found for tenor"
    ELSE IF PreCheckFails(TotalAmount(l.fAsset.price, r), l.fLimit.row)
    THEN "ErrInsufficientCreditLimit"
    ELSE ""

\* checks that look at the customer before the contract number
JoinErrorCustomerFirst(l, r) ==
    IF l.fCustomer = "err" THEN "failed to get customer"
    ELSE IF l.fCustomer = "nil" THEN "customer not found"
    ELSE IF l.fCustomer = "inactive" THEN "customer is not active"
    ELSE IF l.fExisting = "err" THEN "failed to check existing contract"
    ELSE IF l.fExisting = "found" THEN "ErrDuplicateContract"
    ELSE IF l.fAsset.st = "err" THEN "failed to get asset"
    ELSE IF l.fAsset.st = "nil" THEN "asset not found"
    ELSE IF l.fLimit.st = "err" THEN "failed to get credit limit"
    ELSE IF l.fLimit.st = "nil" THEN "no credit limit found for tenor"
    ELSE IF PreCheckFails(TotalAmount(l.fAsset.price, r), l.fLimit.row)
    THEN "ErrInsufficientCreditLimit"
    ELSE ""

\* the checks on the four results in the order of the code, "" when all pass
JoinError(l, r) ==
    IF l.fExisting = "err" THEN "failed to check existing contract"
    ELSE IF l.fExisting = "found" THEN "ErrDuplicateContract"
    ELSE IF l.fCustomer = "err" THEN "failed to get customer"
    ELSE IF l.fCustomer = "nil" THEN "customer not found"
    ELSE IF l.fCustomer = "inactive" THEN "customer is not active"
    ELSE IF l.fAsset.st = "err" THEN "failed to get asset"
    ELSE IF l.fAsset.st = "nil" THEN "asset not found"
    ELSE IF l.fLimit.st = "err" THEN "failed to get credit limit"
    ELSE IF l.fLimit.st = "nil" THEN "no credit limit found for tenor"
    ELSE IF PreCheckFails(TotalAmount(l.fAsset.price, r), l.fLimit.row)
    THEN "ErrInsufficientCreditLimit"
    ELSE ""

\* the four results are received; checks, pricing and the pre-check
IssueJoin(p) ==
    /\ Fetching(p)
    /\ loc[p].fExisting # "pending" /\ loc[p].fCustomer # "pending"
    /\ loc[p].fAsset.st # "pending" /\ loc[p].fLimit.st # "pending"
    /\ IF JoinError(loc[p], req[p]) # ""
       THEN /\ Finish(p, JoinError(loc[p], req[p]))
            /\ UNCHANGED loc
       ELSE /\ Goto(p, "createLock")
            /\ loc' = [loc EXCEPT ![p].txn =
                         NewTransaction(loc[p].fAsset.price, req[p])]
    /\ UNCHANGED <<db, lock, issued, op, req, hist, calls, faults, now, snap, gen, fan>>

\* a transaction end that keeps the row lock
KeepLock(l, p) == l

\* commit or rollback: the row lock the transaction of p holds is released
Unlock(l, p) == [l EXCEPT ![p] = 0]

\* a locking read that never waits
LockIgnored(p, id) == TRUE

\* no other transaction holds the lock of the credit limit row id
LockFree(p, id) == \A q \in Procs \ {p} : lock[q] # id

\* transactionRepository.Create, the locked read: SELECT ... FOR UPDATE of
\* the credit limit of (customer, tenor); it waits while the row is locked
CreateLock(p) ==
    /\ pc[p] = "createLock"
    /\ \E f \in FaultChoices :
         LET row == GetByCustomerIDAndTenor(db, loc[p].txn.customer,
                                            loc[p].txn.tenor)
         IN  /\ f \/ row.id = 0 \/ LockFree(p, row.id)
             /\ Inject(p, f)
             /\ IF f \/ row.id = 0
                THEN /\ Finish(p, "failed to create transaction: failed to get credit limit")
                     /\ UNCHANGED <<lock, loc>>
                ELSE /\ Goto(p, "createBody")
                     /\ lock' = [lock EXCEPT ![p] = row.id]
                     /\ loc' = [loc EXCEPT ![p].row = row]
    /\ UNCHANGED <<db, issued, op, req, calls, now, snap, gen, fan>>

\* transactionRepository.Create, the rest of the transaction: capacity
\* re-check, the inserts, the save, and commit or rollback
CreateRun(p) ==
    /\ pc[p] = "createBody"
    /\ \E fault \in {"none"} \cup (IF calls + faults < MaxEvents THEN CreateFaults ELSE {}) :
         LET out  == CreateBody(db, loc[p].row, loc[p].txn, fault)
             post == Transaction(db, out)
         IN  /\ fault # "none" => out # CreateBody(db, loc[p].row, loc[p].txn, "none")
             /\ db' = post
             /\ lock' = Unlock(lock, p)
             /\ faults' = IF fault # "none" THEN faults + 1 ELSE faults
             /\ hist' = [hist EXCEPT ![p] =
                           [Committed(@, db, post, loc[p].row.id)
                              EXCEPT !.fault = @ \/ fault # "none"]]
             /\ IF out.err = ""
                THEN /\ Goto(p, "updateLock")
                     /\ loc' = [loc EXCEPT ![p].txId = NewTxId(db),
                                           ![p].updId = loc[p].fLimit.row.id,
                                           ![p].updAmount = TxTotal(loc[p].txn)]
                ELSE /\ Finish(p, "failed to create transaction: " \o out.err)
                     /\ UNCHANGED loc
    /\ UNCHANGED <<issued, op, req, calls, now, snap, gen, fan>>

\* the error a failed creditLimitRepo.UpdateUsedAmount is wrapped in
UpdateWrap(o) ==
    IF o = "issue" THEN "failed to update credit limit: "
    ELSE "failed to update credit limit used amount: "

\* creditLimitRepository.UpdateUsedAmount, the locked read by primary key
UpdateLock(p) ==
    /\ pc[p] = "updateLock"
    /\ \E f \in FaultChoices :
         LET row == GetByID(db, loc[p].updId)
         IN  /\ f \/ row.id = 0 \/ LockFree(p, row.id)
             /\ Inject(p, f)
             /\ IF f \/ row.id = 0
                THEN /\ Finish(p, UpdateWrap(op[p])
                                    \o "failed to get credit limit for update")
                     /\ UNCHANGED <<lock, loc>>
                ELSE /\ Goto(p, "updateBody")
                     /\ lock' = [lock EXCEPT ![p] = row.id]
                     /\ loc' = [loc EXCEPT ![p].row = row]
    /\ UNCHANGED <<db, issued, op, req, calls, now, snap, gen, fan>>

\* creditLimitRepository.UpdateUsedAmount, the rest of the transaction
UpdateRun(p) ==
    /\ pc[p] = "updateBody"
    /\ \E fault \in {"none"} \cup (IF calls + faults < MaxEvents THEN {"save"} ELSE {}) :
         LET out  == UpdateBody(db, loc[p].row, loc[p].updAmount, fault)
             post == Transaction(db, out)
         IN  /\ fault # "none" => out # UpdateBody(db, loc[p].row, loc[p].updAmount, "none")
             /\ db' = post
             /\ lock' = Unlock(lock, p)
             /\ faults' = IF fault # "none" THEN faults + 1 ELSE faults
             /\ hist' = [hist EXCEPT ![p] =
                           [Committed(@, db, post, loc[p].row.id)
                              EXCEPT !.fault = @ \/ fault # "none"]]
             /\ IF out.err # ""
                THEN Finish(p, UpdateWrap(op[p]) \o out.err)
                ELSE IF op[p] = "issue" THEN Goto(p, "reread")
                ELSE Finish(p, "ok")
    /\ UNCHANGED <<issued, op, req, loc, calls, now, snap, gen, fan>>

\* Preload("TransactionDetail") into the has-one field of Transaction: the
\* values the pointer can get, {} for nil; of several rows of the contract
\* the one the unordered query returns last stays
PreloadTransactionDetail(d, i) ==
    LET es == { e \in d.transaction_details : e.tx = i }
    IN  IF es = {} THEN {{}} ELSE { {e} : e \in es }

\* toResponse: response.Installments, built from tx.TransactionDetail
toResponseInstallments(detail) == detail

\* transactionRepo.GetByID of the created transaction, and the response
IssueReread(p) ==
    /\ pc[p] = "reread"
    /\ \E f \in FaultChoices :
         /\ Inject(p, f)
         /\ IF f
            THEN /\ Finish(p, "failed to get created transaction")
                 /\ UNCHANGED loc
            ELSE /\ Finish(p, "ok")
                 /\ \E detail \in PreloadTransactionDetail(db, loc[p].txId) :
                      loc' = [loc EXCEPT
                                ![p].resp =
                                  [x \in DOMAIN NoTxn |->
                                     db.transactions[loc[p].txId][x]],
                                ![p].respInst = toResponseInstallments(detail)]
    /\ UNCHANGED <<db, lock, issued, op, req, calls, now, snap, gen, fan>>

\* --------------------------------------------- creditLimitService.Create
\* validation and the check for an existing credit limit of (customer, tenor)
LimitCreateStart(p, r) ==
    /\ Begin(p, "limitCreate", r)
    /\ loc' = [loc EXCEPT ![p] = NoLoc]
    /\ IF ValidateCreditLimit(r) # {}
       THEN Finish(p, "validation failed")
       ELSE IF GetByCustomerIDAndTenor(db, r.customer, r.tenor).id # 0
       THEN Finish(p, "ErrDuplicateCreditLimit")
       ELSE /\ pc' = [pc EXCEPT ![p] = "limitInsert"]
            /\ result' = [result EXCEPT ![p] = ""]
    /\ UNCHANGED <<db, lock, issued, faults, now, snap, gen, fan>>

\* creditLimitRepository.Create: the insert, with a fresh uuid as the key
LimitCreateInsert(p) ==
    /\ pc[p] = "limitInsert"
    /\ \E f \in FaultChoices :
         /\ Inject(p, f)
         /\ IF f \/ req[p].customer \notin DOMAIN CustomerTable
            THEN /\ Finish(p, "failed to create credit limit")
                 /\ UNCHANGED <<db, issued>>
            ELSE \E id \in AllocIds \ issued :
                   /\ db' = [db EXCEPT !.credit_limits =
                               [i \in DOMAIN db.credit_limits \cup {id} |->
                                  IF i = id
                                  THEN [customer |-> req[p].customer,
                                        tenor |-> req[p].tenor,
                                        limit |-> req[p].limit, used |-> 0]
                                  ELSE db.credit_limits[i]]]
                   /\ issued' = issued \cup {id}
                   /\ Finish(p, "ok")
    /\ UNCHANGED <<lock, op, req, loc, calls, now, snap, gen, fan>>

\* --------------------------------------- creditLimitService.UpdateUsedAmount
\* the unlocked read of the service and its checks on it
LimitUpdateStart(p, id, amount) ==
    /\ Begin(p, "limitUpdate", [id |-> id, amount |-> amount])
    /\ LET row == GetByID(db, id)
       IN  IF amount = 0 THEN Finish(p, "ok") /\ loc' = [loc EXCEPT ![p] = NoLoc]
           ELSE IF row.id = 0
           THEN Finish(p, "ErrCreditLimitNotFound") /\ loc' = [loc EXCEPT ![p] = NoLoc]
           ELSE IF amount < 0 /\ row.used + amount < 0
           THEN /\ Finish(p, "invalid amount: would result in negative used amount")
                /\ loc' = [loc EXCEPT ![p] = NoLoc]
           ELSE IF amount > 0 /\ row.used + amount > row.limit
           THEN Finish(p, "ErrInsufficientCreditLimit") /\ loc' = [loc EXCEPT ![p] = NoLoc]
           ELSE /\ pc' = [pc EXCEPT ![p] = "updateLock"]
                /\ result' = [result EXCEPT ![p] = ""]
                /\ loc' = [loc EXCEPT ![p] =
                             [NoLoc EXCEPT !.updId = id, !.updAmount = amount]]
    /\ UNCHANGED <<db, lock, issued, faults, now, snap, gen, fan>>

\* --------------------------------------------- creditLimitService.Delete
\* the unlocked read of the service and its checks on it
LimitDeleteStart(p, id) ==
    /\ Begin(p, "limitDelete", [id |-> id])
    /\ loc' = [loc EXCEPT ![p] = [NoLoc EXCEPT !.updId = id]]
    /\ LET row == GetByID(db, id)
       IN  IF row.id = 0 THEN Finish(p, "ErrCreditLimitNotFound")
           ELSE IF row.used > 0 THEN Finish(p, "ErrCreditLimitInUse")
           ELSE /\ pc' = [pc EXCEPT ![p] = "deleteRead"]
                /\ result' = [result EXCEPT ![p] = ""]
    /\ UNCHANGED <<db, lock, issued, faults, now, snap, gen, fan>>

\* creditLimitRepository.Delete: the read of the row inside the transaction
\* (a plain SELECT, which takes no lock) and the check on it
LimitDeleteRead(p) ==
    /\ pc[p] = "deleteRead"
    /\ LET row == GetByID(db, loc[p].updId)
       IN  IF row.id = 0
           THEN Finish(p, "failed to delete credit limit: credit limit not found")
                /\ UNCHANGED loc
           ELSE IF row.used > 0
           THEN /\ Finish(p, "failed to delete credit limit: cannot delete credit limit: limit is currently in use")
                /\ UNCHANGED loc
           ELSE /\ Goto(p, "deleteExec")
                /\ loc' = [loc EXCEPT ![p].row = row]
    /\ UNCHANGED <<db, lock, issued, op, req, hist, calls, faults, now, snap, gen, fan>>

\* creditLimitRepository.Delete: DELETE by primary key, which waits for the
\* row lock, and the commit
LimitDeleteExec(p) ==
    /\ pc[p] = "deleteExec"
    /\ LockFree(p, loc[p].row.id)
    /\ db' = [db EXCEPT !.credit_limits =
                [i \in DOMAIN db.credit_limits \ {loc[p].row.id} |->
                   db.credit_limits[i]]]
    /\ Finish(p, "ok")
    /\ UNCHANGED <<lock, issued, op, req, loc, hist, calls, faults, now, snap, gen, fan>>

\* -------------------------------------------------------- specification
Next ==
    \E p \in Procs :
        \/ \E r \in IssueInputs : IssueStart(p, r)
        \/ FetchExisting(p)
        \/ FetchCustomer(p)
        \/ FetchAsset(p)
        \/ FetchCreditLimit(p)
        \/ IssueJoin(p)
        \/ CreateLock(p)
        \/ CreateRun(p)
        \/ UpdateLock(p)
        \/ UpdateRun(p)
        \/ IssueReread(p)
        \/ \E r \in LimitInputs : LimitCreateStart(p, r)
        \/ LimitCreateInsert(p)
        \/ \E id \in AllocIds, a \in AmountInputs : LimitUpdateStart(p, id, a)
        \/ \E id \in AllocIds : LimitDeleteStart(p, id)
        \/ LimitDeleteRead(p)
        \/ LimitDeleteExec(p)

Spec == Init /\ [][Next]_vars

\* a step of the call running on handler p, once it has started
Continue(p) ==
    \/ FetchExisting(p) \/ FetchCustomer(p) \/ FetchAsset(p)
    \/ FetchCreditLimit(p) \/ IssueJoin(p)
    \/ CreateLock(p) \/ CreateRun(p) \/ UpdateLock(p) \/ UpdateRun(p)
    \/ IssueReread(p)
    \/ LimitCreateInsert(p) \/ LimitDeleteRead(p) \/ LimitDeleteExec(p)

\* The goroutine of every started call keeps being scheduled and the
\* database answers every statement that is not waiting for a lock.
FairSpec == Spec /\ \A p \in Procs : WF_vars(Continue(p))

\* ------------------------------------------- the schedule generator alone
\* generator calls on one contract snapshot
MaxRuns == 2
\* days the clock advances after the issuance of the snapshot
MaxTicks == 2

\* requests the pricing and the generator are applied to
PricingInputs ==
    { [customer |-> "c1", asset |-> a, tenor |-> t, adminFee |-> f, rate |-> r,
       contract |-> "K1"] :
        a \in DOMAIN AssetTable, t \in ValidTenors, f \in {0, 500000},
        r \in {0, 1, 2} }

\* issuance dates: the end of January in a leap year, the end of the year,
\* the middle of a month
StartDates ==
    { [y |-> 2024, m |-> 1, d |-> 31], [y |-> 2024, m |-> 12, d |-> 31],
      [y |-> 2025, m |-> 1, d |-> 15] }

RECURSIVE DaysAfter(_, _)
\* the date n days after t
DaysAfter(t, n) ==
    IF n = 0 THEN t
    ELSE LET u == DaysAfter(t, n - 1) IN NormalizeDate(u.y, u.m, u.d + 1)

\* The service has built the transaction snap from a valid request and the
\* fetched asset at the date now; nothing else is going on.
InitGen ==
    /\ db = EmptyDB
    /\ lock = [p \in Procs |-> 0]
    /\ issued = {}
    /\ pc = [p \in Procs |-> "idle"]
    /\ op = [p \in Procs |-> ""]
    /\ req = [p \in Procs |-> NoReq]
    /\ loc = [p \in Procs |-> NoLoc]
    /\ result = [p \in Procs |-> ""]
    /\ hist = [p \in Procs |-> NoHist]
    /\ calls = 0
    /\ faults = 0
    /\ now \in StartDates
    /\ snap \in { NewTransaction(AssetTable[r.asset], r) : r \in PricingInputs }
    /\ gen = <<>>
    /\ fan = NoFan

\* r.generateInstallments(transaction) is called on the snapshot
Generate ==
    /\ Len(gen) < MaxRuns
    /\ gen' = Append(gen, generateInstallments(1, snap))
    /\ UNCHANGED <<db, lock, issued, pc, op, req, loc, result, hist, calls,
                   faults, now, snap, fan>>

\* midnight UTC passes
Tick ==
    /\ \E k \in 0..(MaxTicks - 1) : now = DaysAfter(snap.createdAt, k)
    /\ now' = NormalizeDate(now.y, now.m, now.d + 1)
    /\ UNCHANGED <<db, lock, issued, pc, op, req, loc, result, hist, calls,
                   faults, snap, gen, fan>>

NextGen == Generate \/ Tick

GenSpec == InitGen /\ [][NextGen]_vars

\* --------------------------------------------- the life of one contract
\* a status check that accepts every value
AcceptsAnyStatus(s) == TRUE

\* TransactionStatus.IsValid
IsValid(s) == s \in {"pending", "active", "completed"}

\* an update that rewrites the installment amount together with the status
SetStatusAndInstallment(t, s) == [t EXCEPT !.status = s, !.installment = 0]

\* tx.Model(&transaction).Update("status", status)
SetStatus(t, s) == [t EXCEPT !.status = s]

\* the statuses a caller may ask for: the three of the type and one more
StatusValues == {"pending", "active", "completed", "cancelled"}

\* the statements of transactionRepository.UpdateStatus that may fail
StatusFaults == {"first", "update"}

\* transactionService.UpdateStatus: the check of the requested status
StatusStart(p, id, s) ==
    /\ Begin(p, "updateStatus", [id |-> id, status |-> s])
    /\ loc' = [loc EXCEPT ![p] = NoLoc]
    /\ IF ~IsValid(s)
       THEN Finish(p, "ErrInvalidStatus")
       ELSE /\ pc' = [pc EXCEPT ![p] = "statusRead"]
            /\ result' = [result EXCEPT ![p] = ""]
    /\ UNCHANGED <<db, lock, issued, faults, now, snap, gen, fan>>

\* transactionService.UpdateStatus: transactionRepo.GetByID and the nil check
StatusRead(p) ==
    /\ pc[p] = "statusRead"
    /\ \E f \in FaultChoices :
         /\ Inject(p, f)
         /\ IF f THEN Finish(p, "failed to get transaction")
            ELSE IF req[p].id \notin DOMAIN db.transactions
            THEN Finish(p, "ErrTransactionNotFound")
            ELSE Goto(p, "statusExec")
    /\ UNCHANGED <<db, lock, issued, op, req, loc, calls, now, snap, gen, fan>>

\* transactionRepository.UpdateStatus: one database transaction that reads
\* the row by primary key and updates its status column
StatusExec(p) ==
    /\ pc[p] = "statusExec"
    /\ \E fault \in {"none"} \cup (IF calls + faults < MaxEvents
                                   THEN StatusFaults ELSE {}) :
         /\ faults' = IF fault # "none" THEN faults + 1 ELSE faults
         /\ hist' = [hist EXCEPT ![p].fault = @ \/ fault # "none"]
         /\ IF fault = "first" \/ req[p].id \notin DOMAIN db.transactions
            THEN /\ Finish(p, "failed to update status: failed to get transaction")
                 /\ UNCHANGED db
            ELSE IF fault = "update"
            THEN /\ Finish(p, "failed to update status: failed to update transaction status")
                 /\ UNCHANGED db
            ELSE /\ db' = [db EXCEPT !.transactions[req[p].id] =
                             SetStatus(@, req[p].status)]
                 /\ Finish(p, "ok")
    /\ UNCHANGED <<lock, issued, op, req, loc, calls, now, snap, gen, fan>>

\* the database after one issue call (asset a2, tenor 1, no fee, no interest,
\* contract K1) has completed on the seeded database
IssuedDB ==
    LET r  == [customer |-> "c1", asset |-> "a2", tenor |-> 1, adminFee |-> 0,
               rate |-> 0, contract |-> "K1"]
        t  == NewTransaction(AssetTable[r.asset], r)
        d1 == Transaction(SeededDB, CreateBody(SeededDB, GetByID(SeededDB, 1), t, "none"))
    IN  Transaction(d1, UpdateBody(d1, GetByID(d1, 1), TxTotal(t), "none"))

\* The service runs on a database that holds one credit limit and one
\* contract issued on it.
InitStatus ==
    /\ now = [y |-> 2025, m |-> 1, d |-> 31]
    /\ db = IssuedDB
    /\ lock = [p \in Procs |-> 0]
    /\ issued = DOMAIN db.credit_limits
    /\ pc = [p \in Procs |-> "idle"]
    /\ op = [p \in Procs |-> ""]
    /\ req = [p \in Procs |-> NoReq]
    /\ loc = [p \in Procs |-> NoLoc]
    /\ result = [p \in Procs |-> ""]
    /\ hist = [p \in Procs |-> NoHist]
    /\ calls = 0
    /\ faults = 0
    /\ snap = NoTxn
    /\ gen = <<>>
    /\ fan = NoFan

NextStatus ==
    \/ \E p \in Procs :
         \/ \E id \in 1..2, s \in StatusValues : StatusStart(p, id, s)
         \/ StatusRead(p)
         \/ StatusExec(p)
    \/ Next

StatusSpec == InitStatus /\ [][NextStatus]_vars

\* ------------------------------- the fan-out of transactionService.Create
\* fan.g[i]: fetch goroutine i (1 contract number, 2 customer, 3 asset,
\* 4 credit limit) with the result val of its query; fan.closed: how many of
\* the channels the closer goroutine has closed, in order; fan.k: the channel
\* the caller receives from next; fan.got[i]: what it received from channel
\* i; fan.first: the goroutine whose query returned first (history).
FetchResults == {"found", "nil", "err"}

\* a wg.Wait that returns at once
WaitReturnsAtOnce(f) == TRUE

\* wg.Wait returns: the four goroutines have called wg.Done
WaitReturns(f) == \A i \in 1..4 : f.g[i].pc = "done"

\* the four goroutines and the closer have been started, the caller is at its
\* first receive
InitFan ==
    /\ db = EmptyDB
    /\ lock = [p \in Procs |-> 0]
    /\ issued = {}
    /\ pc = [p \in Procs |-> "idle"]
    /\ op = [p \in Procs |-> ""]
    /\ req = [p \in Procs |-> NoReq]
    /\ loc = [p \in Procs |-> NoLoc]
    /\ result = [p \in Procs |-> ""]
    /\ hist = [p \in Procs |-> NoHist]
    /\ calls = 0
    /\ faults = 0
    /\ now = [y |-> 2025, m |-> 1, d |-> 31]
    /\ snap = NoTxn
    /\ gen = <<>>
    /\ fan = [NoFan EXCEPT !.g = [i \in 1..4 |-> [pc |-> "query", val |-> ""]],
                           !.k = 1]

\* the frame of the steps of the fan-out
FanFrame ==
    UNCHANGED <<db, lock, issued, pc, op, req, loc, result, hist, calls,
                faults, now, snap, gen>>

\* the repository call of goroutine i returns; the goroutine goes on to its
\* send, at which it waits for the receiver
FanQuery(i) ==
    /\ fan.g[i].pc = "query"
    /\ \E v \in FetchResults :
         fan' = [fan EXCEPT !.g[i] = [pc |-> "send", val |-> v],
                            !.first = IF @ = 0 THEN i ELSE @]
    /\ FanFrame

\* the caller's receive from channel fan.k: it meets the send of goroutine
\* fan.k, or yields the zero value when the channel is closed
FanReceive ==
    /\ fan.k \in 1..4
    /\ IF fan.closed >= fan.k
       THEN fan' = [fan EXCEPT !.got[fan.k] = "zero", !.k = @ + 1]
       ELSE /\ fan.g[fan.k].pc = "send"
            /\ fan' = [fan EXCEPT !.got[fan.k] = fan.g[fan.k].val,
                                  !.g[fan.k].pc = "sent",
                                  !.k = @ + 1]
    /\ FanFrame

\* the deferred wg.Done of goroutine i, after its send has completed
FanDone(i) ==
    /\ fan.g[i].pc = "sent"
    /\ fan' = [fan EXCEPT !.g[i].pc = "done"]
    /\ FanFrame

\* the closer goroutine: wg.Wait has returned and it closes the next channel
FanClose ==
    /\ fan.closed < 4
    /\ WaitReturns(fan)
    /\ fan' = [fan EXCEPT !.closed = @ + 1]
    /\ FanFrame

NextFan ==
    \/ \E i \in 1..4 : FanQuery(i)
    \/ FanReceive
    \/ \E i \in 1..4 : FanDone(i)
    \/ FanClose

FanSpec == InitFan /\ [][NextFan]_vars

\* every goroutine that can take a step eventually takes one
FanFairSpec == FanSpec /\ WF_vars(NextFan)

\* ---------------------------------------------------------------- claims
RECURSIVE Sum(_)
\* the sum of the second components of a set of pairs
Sum(S) ==
    IF S = {} THEN 0
    ELSE LET x == CHOOSE y \in S : TRUE IN x[2] + Sum(S \ {x})

\* principal + fee + interest over the contracts persisted against the
\* credit limit row a
IssuedTotal(d, a) ==
    Sum({ <<i, TxTotal(d.transactions[i])>> :
            i \in { j \in DOMAIN d.transactions : d.transactions[j].alloc = a } })

IssueDone(p) == pc[p] = "done" /\ op[p] = "issue"

\* the call of p has committed nothing
WroteNothing(p) == hist[p].tx = 0 /\ hist[p].details = 0 /\ hist[p].delta = 0

\* the four fetches of p succeeded and found what a valid call needs
FetchedAll(p) ==
    /\ loc[p].fExisting = "nil" /\ loc[p].fCustomer = "active"
    /\ loc[p].fAsset.st = "ok" /\ loc[p].fLimit.st = "ok"

\* the total amount of the call of p, from the fetched asset price
CallTotal(p) == TotalAmount(loc[p].fAsset.price, req[p])

\* the errors of an issue call that report a lack of capacity
CapacityErrors ==
    {"ErrInsufficientCreditLimit",
     "failed to create transaction: insufficient credit limit",
     "failed to update credit limit: insufficient credit limit"}

\* C1: in every interleaving of issue calls, the total amounts of the
\* contracts persisted against a credit limit sum to at most its limit.
C1_NoOvershoot ==
    \A a \in DOMAIN db.credit_limits :
        IssuedTotal(db, a) <= db.credit_limits[a].limit

\* C2: in every reachable state every credit limit has used <= limit.
C2_UsedAtMostLimit ==
    \A a \in DOMAIN db.credit_limits :
        db.credit_limits[a].used <= db.credit_limits[a].limit

\* a call has raised the committed amount of a credit limit that still exists
C2_Witness ==
    \E p \in Procs, a \in DOMAIN db.credit_limits :
        /\ hist[p].delta > 0
        /\ loc[p].row.id = a
        /\ db.credit_limits[a].used > 0

\* C3: in every reachable state, also after concurrent releases, every
\* credit limit has used >= 0.
C3_UsedNonNegative ==
    \A a \in DOMAIN db.credit_limits : db.credit_limits[a].used >= 0

\* C4: an issue call that returns an error has persisted nothing: no
\* contract, no schedule row, no change of the committed amount.
C4_ErrorPersistsNothing ==
    \A p \in Procs : IssueDone(p) /\ result[p] # "ok" => WroteNothing(p)

\* C5: when the issuance transaction fails, at the capacity re-check under
\* the lock or at a later statement, nothing of it is committed.
C5_FailedTransactionCommitsNothing ==
    \A p \in Procs :
        /\ IssueDone(p)
        /\ result[p] \in { "failed to create transaction: " \o e :
                             e \in {"insufficient credit limit",
                                    "failed to create transaction",
                                    "failed to create transaction details",
                                    "failed to update credit limit"} }
        => WroteNothing(p)

\* the capacity re-check under the row lock failed after the pre-check passed
C5_Witness ==
    \E p \in Procs :
        /\ IssueDone(p)
        /\ result[p] = "failed to create transaction: insufficient credit limit"
        /\ loc[p].row.used + loc[p].txn.otr > loc[p].row.limit
        /\ ~PreCheckFails(CallTotal(p), loc[p].fLimit.row)

\* C6: in no reachable state is a contract persisted while the committed
\* amount does not yet include the total amount of that contract.
C6_ContractImpliesCommitted ==
    \A p \in Procs :
        hist[p].tx # 0 => hist[p].delta >= TxTotal(loc[p].txn)

\* C7: a successful issue call raises the committed amount by exactly the
\* total amount, counted once.
C7_CommittedOnce ==
    \A p \in Procs :
        IssueDone(p) /\ result[p] = "ok" => hist[p].delta = TxTotal(loc[p].txn)

\* C8: Scenario A.  On a credit limit of 100000.00 with nothing committed, a
\* single issue call for the asset of 90000.00 with fee 5000.00, rate 2 and
\* tenor 1 succeeds with interest 1800.00, total and installment 96800.00,
\* and leaves 96800.00 committed.
C8_ScenarioA ==
    \A p \in Procs :
        /\ IssueDone(p)
        /\ calls = 1 /\ faults = 0
        /\ req[p] \in { [BaseIssue EXCEPT !.contract = k] : k \in {"K1", "K2"} }
        /\ FetchedAll(p)
        /\ loc[p].fLimit.row.limit = 10000000 /\ loc[p].fLimit.row.used = 0
        => /\ result[p] = "ok"
           /\ loc[p].resp.interest = 180000
           /\ TxTotal(loc[p].resp) = 9680000
           /\ loc[p].resp.installment = 9680000
           /\ db.credit_limits[loc[p].fLimit.row.id].used = 9680000

\* C9: an issue call whose total amount exceeds limit - used as fetched is
\* rejected with ErrInsufficientCreditLimit and writes nothing.
C9_PreCheckRejects ==
    \A p \in Procs :
        /\ IssueDone(p)
        /\ FetchedAll(p)
        /\ CallTotal(p) > loc[p].fLimit.row.limit - loc[p].fLimit.row.used
        => result[p] = "ErrInsufficientCreditLimit" /\ WroteNothing(p)

\* Scenario B: limit 100000.00, 96800.00 committed, a call of total 5000.00
C9_Witness ==
    \E p \in Procs :
        /\ IssueDone(p)
        /\ FetchedAll(p)
        /\ loc[p].fLimit.row.limit = 10000000
        /\ loc[p].fLimit.row.used = 9680000
        /\ CallTotal(p) = 500000
        /\ result[p] = "ErrInsufficientCreditLimit"
        /\ db.credit_limits[loc[p].fLimit.row.id].used = 9680000

\* C10: an otherwise valid issue call whose total amount fits into the limit
\* less the total amounts of the contracts already issued against the
\* credit limit is not rejected for capacity.
C10_FittingCallAccepted ==
    \A p \in Procs :
        LET a     == loc[p].fLimit.row.id
            own   == IF hist[p].tx # 0 THEN TxTotal(loc[p].txn) ELSE 0
            prior == IssuedTotal(db, a) - own
        IN  /\ IssueDone(p)
            /\ hist[p].solo /\ ~hist[p].fault
            /\ FetchedAll(p)
            /\ loc[p].fLimit.row.used <= prior
            /\ CallTotal(p) <= loc[p].fLimit.row.limit - prior
            => result[p] \notin CapacityErrors

\* the fetches of customer, asset and credit limit of p found what a valid
\* call needs
FetchedParties(p) ==
    /\ loc[p].fCustomer = "active"
    /\ loc[p].fAsset.st = "ok" /\ loc[p].fLimit.st = "ok"

\* the calls of p and q overlapped in time
Concurrent(p, q) == p # q /\ ~hist[p].solo /\ ~hist[q].solo

\* C11: Scenario C.  Of two concurrent, otherwise valid issue calls with the
\* same contract number, both within capacity, exactly one succeeds and the
\* other fails with ErrDuplicateContract.
C11_DuplicateContractNamed ==
    \A p, q \in Procs :
        /\ Concurrent(p, q)
        /\ IssueDone(p) /\ IssueDone(q)
        /\ faults = 0
        /\ req[p].contract = req[q].contract
        /\ FetchedParties(p) /\ FetchedParties(q)
        /\ result[p] \notin CapacityErrors /\ result[q] \notin CapacityErrors
        => {result[p], result[q]} = {"ok", "ErrDuplicateContract"}

\* C12: in every reachable state no two persisted contracts share a contract
\* number.
C12_ContractNumberUnique ==
    \A i, j \in DOMAIN db.transactions :
        i # j => db.transactions[i].contract # db.transactions[j].contract

\* an insert was refused by the unique index: the contract number was free
\* when the call looked it up and taken when the call inserted
C12_Witness ==
    \E p \in Procs :
        /\ IssueDone(p)
        /\ ~hist[p].fault
        /\ loc[p].fExisting = "nil"
        /\ result[p] = "failed to create transaction: failed to create transaction"
        /\ \E i \in DOMAIN db.transactions :
             db.transactions[i].contract = req[p].contract

\* C13: in every reachable state there is at most one credit limit row per
\* (customer, tenor), also after concurrent creates for the same pair.
C13_OneLimitPerPair ==
    \A i, j \in DOMAIN db.credit_limits :
        i # j => \/ db.credit_limits[i].customer # db.credit_limits[j].customer
                 \/ db.credit_limits[i].tenor # db.credit_limits[j].tenor

\* this step starts a service call on handler p
Started(p) ==
    /\ ~Running(p)
    /\ \A q \in Procs : q < p => Running(q)
    /\ calls' = calls + 1

\* the credit limit rows of the pair (c, t)
RowsOfPair(d, c, t) ==
    { i \in DOMAIN d.credit_limits :
        d.credit_limits[i].customer = c /\ d.credit_limits[i].tenor = t }

C15_DeleteOnlyUnused ==
    [][\A id \in DOMAIN db.credit_limits :
         id \notin DOMAIN db'.credit_limits => db.credit_limits[id].used = 0
      ]_vars

\* C16: a release is judged against the used amount at the time the
\* decrement is applied: when that would go below zero the release fails
\* with the invalid-amount error and changes nothing, otherwise it lowers
\* used by exactly the amount.
C16_ReleaseJudgedAtDecrement ==
    \A p \in Procs :
        ( /\ op[p] = "limitUpdate" /\ pc[p] = "done"
          /\ req[p].amount < 0
          /\ loc[p].row.id # 0
          /\ ~hist[p].fault )
        => IF loc[p].row.used + req[p].amount < 0
           THEN /\ result[p] = "invalid amount: would result in negative used amount"
                /\ hist[p].delta = 0
           ELSE /\ result[p] = "ok"
                /\ hist[p].delta = req[p].amount

ReservationOk(p) ==
    /\ op[p] = "limitUpdate" /\ pc[p] = "done" /\ result[p] = "ok"
    /\ req[p].amount # 0

\* C18: transactions on one credit limit row are serialized by the row lock:
\* at most one holds the lock, what the holder read under the lock is the
\* committed row, and when two concurrent reservations a and b of the same
\* row both succeed, the second checked against the value the first wrote
\* and the row ends at u + a + b.
C18_ReservationsSerialized ==
    /\ \A p, q \in Procs : p # q /\ lock[p] # 0 => lock[q] # lock[p]
    /\ \A p \in Procs :
         lock[p] # 0 => /\ lock[p] \in DOMAIN db.credit_limits
                        /\ loc[p].row = LimitRow(db, lock[p])
    /\ \A p, q \in Procs :
         ( /\ Concurrent(p, q)
           /\ calls = 2 /\ faults = 0
           /\ ReservationOk(p) /\ ReservationOk(q)
           /\ req[p].id = req[q].id )
         => \E f, s \in {p, q} :
              /\ f # s
              /\ loc[s].row.used = loc[f].row.used + req[f].amount
              /\ db.credit_limits[req[p].id].used =
                   loc[f].row.used + req[p].amount + req[q].amount

\* two concurrent reservations of positive amounts on one row both succeeded
C18_Witness ==
    \E p, q \in Procs :
        /\ Concurrent(p, q)
        /\ ReservationOk(p) /\ ReservationOk(q)
        /\ req[p].id = req[q].id
        /\ req[p].amount > 0 /\ req[q].amount > 0
        /\ db.credit_limits[req[p].id].used = req[p].amount + req[q].amount

\* the row i of d belongs to another (customer, tenor) than row
OtherPair(d, i, row) ==
    \/ d.credit_limits[i].customer # row.customer
    \/ d.credit_limits[i].tenor # row.tenor

C20_ValidationFirst ==
    \A p \in Procs :
        ( op[p] = "issue" /\ req[p] \in InvalidIssueInputs )
        => /\ pc[p] = "done"
           /\ result[p] = "validation failed"
           /\ loc[p] = NoLoc
           /\ WroteNothing(p)

\* an invalid issue call has returned
C20_Witness ==
    \E p \in Procs :
        /\ op[p] = "issue" /\ pc[p] = "done"
        /\ req[p] \in InvalidIssueInputs
        /\ result[p] = "validation failed"
        /\ loc[p].fExisting = "pending"

\* a fetch of p found a reason to reject the call
FetchedRejection(p) ==
    \/ loc[p].fExisting = "found"
    \/ loc[p].fCustomer \in {"nil", "inactive"}
    \/ loc[p].fAsset.st = "nil"
    \/ loc[p].fLimit.st = "nil"

\* the errors the checks on the fetched results return
JoinErrors ==
    {"failed to check existing contract", "ErrDuplicateContract",
     "failed to get customer", "customer not found", "customer is not active",
     "failed to get asset", "asset not found", "failed to get credit limit",
     "no credit limit found for tenor"}

\* C21: an issue call is rejected without any write when the contract number
\* exists, the customer is missing or inactive, the asset is missing or no
\* credit limit exists for (customer, tenor); so every persisted contract
\* was issued on fetches that found a free number, an active customer, the
\* asset and the credit limit.
C21_RejectedWithoutWrites ==
    \A p \in Procs :
        /\ ( op[p] = "issue" /\ FetchedRejection(p) )
           => /\ pc[p] \in {"fetch", "done"}
              /\ WroteNothing(p)
              /\ pc[p] = "done" => result[p] \in JoinErrors
        /\ ( op[p] = "issue" /\ hist[p].tx # 0 )
           => loc[p].fExisting = "nil" /\ FetchedParties(p)

\* a call for an inactive customer was rejected
C21_Witness ==
    \E p \in Procs :
        /\ IssueDone(p)
        /\ loc[p].fCustomer = "inactive"
        /\ result[p] = "customer is not active"
        /\ WroteNothing(p)

\* the conditions an issue call may be refused with
NamedConditions ==
    {"validation failed", "ErrDuplicateContract", "customer not found",
     "customer is not active", "asset not found",
     "no credit limit found for tenor", "ErrInsufficientCreditLimit"}

\* C22: an issue call that fails without an infrastructure failure returns
\* one of the named conditions, never a generic error; a capacity failure
\* found after the pre-check is ErrInsufficientCreditLimit.
C22_NamedConditionsOnly ==
    \A p \in Procs :
        ( IssueDone(p) /\ result[p] # "ok" /\ ~hist[p].fault )
        => result[p] \in NamedConditions

\* p has received the results of all four fetches
AllReceived(p) ==
    /\ loc[p].fExisting # "pending" /\ loc[p].fCustomer # "pending"
    /\ loc[p].fAsset.st # "pending" /\ loc[p].fLimit.st # "pending"

\* a fetch of p returned an error
FetchFailed(p) ==
    \/ loc[p].fExisting = "err" \/ loc[p].fCustomer = "err"
    \/ loc[p].fAsset.st = "err" \/ loc[p].fLimit.st = "err"

\* C23: the four fetches of an issue call complete in any order; while one
\* is outstanding the call has checked and written nothing, it goes on only
\* with all four results, and when a fetch returned an error the call ends
\* with an error and has written nothing.
C23_AllFetchesBeforeChecks ==
    \A p \in Procs :
        op[p] = "issue" =>
          /\ pc[p] = "fetch"
             => result[p] = "" /\ WroteNothing(p) /\ loc[p].txn = NoTxn
          /\ ( pc[p] # "fetch" /\ req[p] \notin InvalidIssueInputs )
             => AllReceived(p)
          /\ FetchFailed(p)
             => /\ pc[p] \in {"fetch", "done"}
                /\ WroteNothing(p)
                /\ pc[p] = "done" => result[p] \in JoinErrors

\* the asset fetch failed after the credit limit fetch had found its row, and
\* the call ended with the asset error
C23_Witness ==
    \E p \in Procs :
        /\ IssueDone(p)
        /\ loc[p].fAsset.st = "err" /\ loc[p].fLimit.st = "ok"
        /\ result[p] = "failed to get asset"
        /\ WroteNothing(p)

\* |a - b| <= d / 2
Near(a, b, d) == 2 * (IF a >= b THEN a - b ELSE b - a) <= d

\* the contract i was issued by call p for the price p fetched
IssuedBy(p, i) == op[p] = "issue" /\ hist[p].tx = i /\ i \in DOMAIN db.transactions

\* C24 as stated: the persisted interest and installment amounts are the
\* exact quotients price * rate * duration / 100 and total / duration.
C24_ExactPricing ==
    \A p \in Procs : \A i \in DOMAIN db.transactions :
        IssuedBy(p, i) =>
          LET t == db.transactions[i]
              price == loc[p].fAsset.price
          IN  /\ t.otr = price
              /\ t.interest * 100 = price * req[p].rate * req[p].tenor
              /\ t.installment * req[p].tenor = price + req[p].adminFee + t.interest

\* C24: for every issued contract the persisted principal is the asset price
\* as fetched and the fee is the requested fee; the persisted interest is
\* price * rate * duration / 100 and the persisted installment is
\* (price + fee + price * rate * duration / 100) / duration, each to the
\* nearest hundredth.
C24_RoundedPricing ==
    \A p \in Procs : \A i \in DOMAIN db.transactions :
        IssuedBy(p, i) =>
          LET t == db.transactions[i]
              price == loc[p].fAsset.price
              r == req[p]
          IN  /\ t.otr = price /\ price = AssetTable[r.asset]
              /\ t.adminFee = r.adminFee /\ t.tenor = r.tenor
              /\ Near(t.interest * 100, price * r.rate * r.tenor, 100)
              /\ Near(t.installment * 100 * r.tenor,
                      100 * (price + r.adminFee) + price * r.rate * r.tenor,
                      100 * r.tenor)

\* a contract whose interest 0.2002 and installment 5.1051 had to be rounded
C24_Witness ==
    \E p \in Procs : \E i \in DOMAIN db.transactions :
        /\ IssuedBy(p, i) /\ IssueDone(p) /\ result[p] = "ok"
        /\ req[p].asset = "a4"
        /\ db.transactions[i].interest = 20
        /\ db.transactions[i].installment = 511

\* the due amounts of the schedule entries of contract i
ScheduleSum(d, i) ==
    Sum({ <<e, e.amount>> : e \in { x \in d.transaction_details : x.tx = i } })

\* C25 as stated: principal + fee + interest = installment * duration and the
\* schedule sums to that total.
C25_ExactSplit ==
    \A i \in DOMAIN db.transactions :
        LET t == db.transactions[i]
        IN  /\ TxTotal(t) = t.installment * t.tenor
            /\ ScheduleSum(db, i) = TxTotal(t)

\* C25: for every persisted contract installment * duration differs from
\* principal + fee + interest by at most (duration + 1) / 2 hundredths, and
\* the due amounts of its schedule sum to installment * duration.
C25_SplitUpToRounding ==
    \A i \in DOMAIN db.transactions :
        LET t == db.transactions[i]
        IN  /\ Near(t.installment * t.tenor, TxTotal(t), t.tenor + 1)
            /\ ScheduleSum(db, i) = t.installment * t.tenor

\* a persisted contract of total 10.21 with two installments of 5.11
C25_Witness ==
    \E i \in DOMAIN db.transactions :
        /\ TxTotal(db.transactions[i]) = 1021
        /\ db.transactions[i].tenor = 2
        /\ ScheduleSum(db, i) = 1022

\* the schedule entries of contract i
DetailsOf(d, i) == { e \in d.transaction_details : e.tx = i }

\* C26: every persisted contract of duration D has exactly D schedule
\* entries numbered exactly 1..D, hence no two with the same number, and
\* every schedule entry belongs to a persisted contract.
C26_ScheduleComplete ==
    /\ \A i \in DOMAIN db.transactions :
         /\ Cardinality(DetailsOf(db, i)) = db.transactions[i].tenor
         /\ { e.number : e \in DetailsOf(db, i) } = 1..db.transactions[i].tenor
    /\ \A e \in db.transaction_details : e.tx \in DOMAIN db.transactions

\* a persisted contract of duration 2 with its entries 1 and 2
C26_Witness ==
    \E i \in DOMAIN db.transactions :
        /\ db.transactions[i].tenor = 2
        /\ { e.number : e \in DetailsOf(db, i) } = {1, 2}

\* t plus i calendar months on the same day of the month, or on the last day
\* of the month when it is shorter
AddMonthsClamped(t, i) ==
    LET k == (t.m - 1) + i
        y == t.y + (k \div 12)
        m == (k % 12) + 1
    IN  [y |-> y, m |-> m, d |-> IF t.d > DaysIn(y, m) THEN DaysIn(y, m) ELSE t.d]

\* date a is before date b
Before(a, b) ==
    \/ a.y < b.y
    \/ a.y = b.y /\ a.m < b.m
    \/ a.y = b.y /\ a.m = b.m /\ a.d < b.d

\* C27: entry i of a generated schedule is due i calendar months after the
\* issuance date of the contract, on the same day of the month or on the last
\* day of a shorter month, so that the due dates increase one month at a time.
C27_DueDatesClamped ==
    \A k \in 1..Len(gen) :
        /\ \A e \in gen[k] : e.due = AddMonthsClamped(snap.createdAt, e.number)
        /\ \A e, f \in gen[k] : e.number < f.number => Before(e.due, f.due)

C29_Deterministic ==
    \A j, k \in 1..Len(gen) : gen[j] = gen[k]

\* C30: in the state a successful issue call returns in, the contract it
\* created has status pending and each of its schedule entries has status
\* pending.
C30_StartsPending ==
    [][ \A p \in Procs :
          ( op[p] = "issue" /\ pc[p] # "done" /\ pc'[p] = "done"
            /\ result'[p] = "ok" )
          => /\ loc[p].txId \in DOMAIN db'.transactions
             /\ db'.transactions[loc[p].txId].status = "pending"
             /\ loc'[p].resp.status = "pending"
             /\ DetailsOf(db', loc[p].txId) # {}
             /\ \A e \in DetailsOf(db', loc[p].txId) : e.status = "pending"
      ]_vars

\* a successful issue call of duration 2 has returned; its contract and both
\* schedule entries are pending
C30_Witness ==
    \E p \in Procs :
        /\ IssueDone(p) /\ result[p] = "ok" /\ req[p].tenor = 2
        /\ db.transactions[loc[p].txId].status = "pending"
        /\ Cardinality(DetailsOf(db, loc[p].txId)) = 2
        /\ \A e \in DetailsOf(db, loc[p].txId) : e.status = "pending"

\* the terms of a contract: everything but its status
Terms(t) ==
    <<t.contract, t.customer, t.asset, t.otr, t.adminFee, t.interest, t.tenor,
      t.installment>>

\* number, amount and due date of the schedule entries of contract i
ScheduleTerms(d, i) == { <<e.number, e.amount, e.due>> : e \in DetailsOf(d, i) }

\* this step is taken by the call o running on handler p
StepOf(p, o) ==
    \/ Started(p) /\ op'[p] = o
    \/ Running(p) /\ op[p] = o /\ pc'[p] # pc[p]

Rank(s) == IF s = "pending" THEN 1 ELSE IF s = "active" THEN 2 ELSE 3

\* C32: the status of a contract only advances along pending, active,
\* completed: no step moves a contract back to an earlier status.
C32_StatusOnlyAdvances ==
    [][ \A i \in DOMAIN db.transactions :
          /\ i \in DOMAIN db'.transactions
          /\ Rank(db'.transactions[i].status) >= Rank(db.transactions[i].status)
      ]_vars

\* C38: every persisted contract has one of the statuses pending, active,
\* completed; an UpdateStatus call with any other status returns
\* ErrInvalidStatus at once, an UpdateStatus call for a contract that does not
\* exist returns ErrTransactionNotFound unless a read fails, and no step of
\* either call changes the database.
C38_StatusValidated ==
    [][ /\ \A i \in DOMAIN db.transactions :
             db.transactions[i].status \in {"pending", "active", "completed"}
        /\ \A i \in DOMAIN db'.transactions :
             db'.transactions[i].status \in {"pending", "active", "completed"}
        /\ \A p \in Procs :
             StepOf(p, "updateStatus")
             => /\ req'[p].status \notin {"pending", "active", "completed"}
                   => /\ pc'[p] = "done" /\ result'[p] = "ErrInvalidStatus"
                      /\ db' = db
                /\ ( req'[p].status \in {"pending", "active", "completed"}
                     /\ req'[p].id \notin DOMAIN db.transactions )
                   => /\ db' = db
                      /\ pc'[p] \in {"statusRead", "done"}
                      /\ ( pc'[p] = "done" /\ ~hist'[p].fault )
                         => result'[p] = "ErrTransactionNotFound"
      ]_vars

\* both refusals have happened: one call asked for the status cancelled,
\* another for a contract that does not exist, and contract 1 is as issued
C38_Witness ==
    /\ db = IssuedDB
    /\ \E p, q \in Procs :
         /\ op[p] = "updateStatus" /\ req[p].status = "cancelled"
         /\ result[p] = "ErrInvalidStatus"
         /\ op[q] = "updateStatus" /\ req[q].id = 2
         /\ result[q] = "ErrTransactionNotFound"

\* C33: the value a successful issue call returns for a contract of duration
\* D holds the persisted contract and all D schedule entries, numbered 1..D.
C33_ResponseHasSchedule ==
    \A p \in Procs :
        ( IssueDone(p) /\ result[p] = "ok" )
        => /\ \A x \in DOMAIN NoTxn :
                loc[p].resp[x] = db.transactions[loc[p].txId][x]
           /\ loc[p].respInst = DetailsOf(db, loc[p].txId)
           /\ { e.number : e \in loc[p].respInst } = 1..req[p].tenor

\* the rejection conditions of an issue call on the fetch results l of the
\* request r, highest precedence first, each with its error
Precedence(l, r) ==
    << <<l.fExisting = "err", "failed to check existing contract">>,
       <<l.fExisting = "found", "ErrDuplicateContract">>,
       <<l.fCustomer = "err", "failed to get customer">>,
       <<l.fCustomer = "nil", "customer not found">>,
       <<l.fCustomer = "inactive", "customer is not active">>,
       <<l.fAsset.st = "err", "failed to get asset">>,
       <<l.fAsset.st = "nil", "asset not found">>,
       <<l.fLimit.st = "err", "failed to get credit limit">>,
       <<l.fLimit.st = "nil", "no credit limit found for tenor">>,
       <<l.fAsset.price + r.adminFee
           + RoundDiv(l.fAsset.price * r.rate * r.tenor, 100)
           > l.fLimit.row.limit - l.fLimit.row.used,
         "ErrInsufficientCreditLimit">> >>

\* the error of the first condition that holds, "" when none does
FirstRejection(l, r) ==
    LET s == Precedence(l, r)
        hits == { k \in 1..Len(s) : s[k][1] }
    IN  IF hits = {} THEN ""
        ELSE s[CHOOSE k \in hits : \A j \in hits : k <= j][2]

\* C37: whatever the order in which its fetches completed, an issue call
\* that has received the four results returns the error of the first
\* rejection condition that holds for them, in the order contract number,
\* customer, asset, credit limit, capacity; it goes on to the issuance only
\* when none holds.
C37_ErrorByPrecedence ==
    \A p \in Procs :
        ( op[p] = "issue" /\ AllReceived(p) /\ pc[p] # "fetch" )
        => LET e == FirstRejection(loc[p], req[p])
           IN  /\ e # "" => pc[p] = "done" /\ result[p] = e /\ WroteNothing(p)
               /\ e = "" => result[p] \notin JoinErrors \cup {"ErrInsufficientCreditLimit"}

\* a call for which the contract number exists, the customer is inactive and
\* no credit limit was found was refused for the contract number
C37_Witness ==
    \E p \in Procs :
        /\ IssueDone(p)
        /\ loc[p].fExisting = "found" /\ loc[p].fCustomer = "inactive"
        /\ loc[p].fLimit.st = "nil"
        /\ result[p] = "ErrDuplicateContract"

\* C39: every credit limit has a tenor in {1, 2, 3, 6} and a limit above 0;
\* every contract has a tenor in {1, 2, 3, 6}, an admin fee of at least 0,
\* and the tenor and customer of the credit limit row that was locked for it
\* and of the row its issue call fetched and charged.
C39_ValidatedRows ==
    /\ \A a \in DOMAIN db.credit_limits :
         /\ db.credit_limits[a].tenor \in {1, 2, 3, 6}
         /\ db.credit_limits[a].limit > 0
    /\ \A i \in DOMAIN db.transactions :
         LET t == db.transactions[i]
         IN  /\ t.tenor \in {1, 2, 3, 6}
             /\ t.adminFee >= 0
             /\ t.alloc \in DOMAIN db.credit_limits
                => /\ db.credit_limits[t.alloc].tenor = t.tenor
                   /\ db.credit_limits[t.alloc].customer = t.customer
    /\ \A p \in Procs :
         ( op[p] = "issue" /\ hist[p].tx # 0 )
         => /\ loc[p].fLimit.row.tenor = db.transactions[hist[p].tx].tenor
            /\ loc[p].fLimit.row.customer = db.transactions[hist[p].tx].customer
            /\ db.transactions[hist[p].tx].tenor = req[p].tenor
            /\ db.transactions[hist[p].tx].adminFee = req[p].adminFee

\* a credit limit of tenor 2 was created through the service and a contract
\* of tenor 2 was charged against it
C39_Witness ==
    \E p, q \in Procs :
        /\ op[q] = "limitCreate" /\ result[q] = "ok" /\ req[q].tenor = 2
        /\ op[p] = "issue" /\ hist[p].tx # 0
        /\ db.transactions[hist[p].tx].tenor = 2
        /\ db.transactions[hist[p].tx].alloc \in DOMAIN db.credit_limits
        /\ db.credit_limits[db.transactions[hist[p].tx].alloc].tenor = 2
        /\ db.credit_limits[db.transactions[hist[p].tx].alloc].used > 0

\* The context of the call of p was cancelled: the statement the call was at
\* failed with the context's error, which is the failure injected at it.
Cancelled(p) == op[p] = "issue" /\ hist[p].fault

\* the call of p has committed its contract, the whole schedule and the
\* reservation of the total amount
AllApplied(p) ==
    /\ hist[p].tx # 0
    /\ hist[p].details = req[p].tenor
    /\ hist[p].delta >= TxTotal(loc[p].txn)

\* C34: an issue call that was cancelled has, once it returned, either
\* touched no durable state or applied contract, schedule and reservation
\* together; cancelled before the issuance transaction it has touched none.
C34_CancelAllOrNothing ==
    \A p \in Procs :
        /\ ( Cancelled(p) /\ pc[p] = "done" )
           => WroteNothing(p) \/ AllApplied(p)
        /\ ( Cancelled(p) /\ loc[p].txn = NoTxn ) => WroteNothing(p)

\* a row lock is held only inside the transaction that took it, and by one
\* transaction at a time
LockDiscipline ==
    \A p \in Procs :
        /\ lock[p] # 0 => pc[p] \in {"createBody", "updateBody"}
        /\ \A q \in Procs \ {p} : lock[p] # 0 => lock[q] # lock[p]

\* C36: under fair scheduling every issue call that has started returns;
\* every transaction holds the lock of at most one credit limit row, only
\* until it ends, and no two hold the same row.
C36_IssueReturns ==
    /\ []LockDiscipline
    /\ \A p \in Procs : ( Running(p) /\ op[p] = "issue" ) ~> ( pc[p] = "done" )

\* an issue call waits for the row lock another call's transaction holds
C36_Witness ==
    \E p, q \in Procs :
        /\ op[p] = "issue" /\ pc[p] = "createLock"
        /\ lock[q] # 0
        /\ lock[q] = GetByCustomerIDAndTenor(db, loc[p].txn.customer,
                                             loc[p].txn.tenor).id

\* the caller has its four results and the five goroutines have returned
FanTerminated ==
    /\ fan.k = 5
    /\ \A i \in 1..4 : fan.g[i].pc = "done"
    /\ fan.closed = 4

\* what the caller has received so far is what the goroutines fetched, and
\* while something is left to do some goroutine or the caller can step
FanSafe ==
    /\ \A i \in 1..4 :
         i < fan.k => fan.got[i] = fan.g[i].val /\ fan.got[i] \in FetchResults
    /\ FanTerminated \/ ENABLED NextFan

\* C35: the fan-out never deadlocks; in whatever order the fetches complete
\* the caller receives from each channel the result its goroutine sent, never
\* the zero value of a closed channel, and the caller and the five goroutines
\* all come to their end.
C35_FanOutCompletes == []FanSafe /\ <>FanTerminated

\* the credit limit fetch returned first and waited at its send until the
\* caller had received the other three results; all have terminated
C35_Witness ==
    /\ FanTerminated
    /\ fan.first = 4
    /\ fan.got[1] = "nil" /\ fan.got[2] = "found" /\ fan.got[3] = "err"
    /\ fan.got[4] = "found"

====
